---- MODULE Spec2Model ----
(***************************************************************************)
(* A model of the two Cloud Function handlers of src/main.py:              *)
(*   scrape_and_upload  (HTTP trigger: fetch a page, store the raw HTML)   *)
(*   process_data       (storage trigger: extract links, store JSON,       *)
(*                       publish the next page)                            *)
(*                                                                         *)
(* Text (URLs, file names, hrefs, domains) is a sequence of tokens: the    *)
(* delimiters ":", "/", ".", "?", "#" are tokens of their own and every    *)
(* other token is a run of name characters, so that split, startswith,     *)
(* replace, splitext, urlparse and urljoin are computed on the text and    *)
(* not assumed.  A Python Optional of a compound value is <<>> (None) or   *)
(* <<v>>; a Python Optional of an atomic string uses the value None.       *)
(***************************************************************************)
EXTENDS Integers, Sequences, FiniteSets, TLC

VARIABLES pc, handler, environ, config_file, trigger, world, calls, result,
          raw_bucket, scraped

vars == <<pc, handler, environ, config_file, trigger, world, calls, result,
          raw_bucket, scraped>>

\* Longest document (number of elements, in document order) that is explored.
MaxDocLen == 2

\* Number of successive successful scrapes whose blobs are followed in the
\* raw bucket.
MaxScrapes == 2

\* Python's None where the value is otherwise an atomic string.
None == "<None>"

\* ------------------------------------------------------------------ text

\* Mutant of Truthy: `is not None`, the empty string passes.
IsNotNone(s) == s # None

\* bool(s) of an Optional string: None and "" are false.
Truthy(s) == s # None /\ s # ""

Last(s) == s[Len(s)]

\* Index of the first / last occurrence of token t in s, 0 when there is none.
Find(s, t) ==
  IF \E i \in 1..Len(s) : s[i] = t
  THEN CHOOSE i \in 1..Len(s) : s[i] = t /\ \A j \in 1..(i - 1) : s[j] # t
  ELSE 0

RFind(s, t) ==
  IF \E i \in 1..Len(s) : s[i] = t
  THEN CHOOSE i \in 1..Len(s) : s[i] = t /\ \A j \in (i + 1)..Len(s) : s[j] # t
  ELSE 0

\* Index of the first token of s that is in the set ts, Len(s)+1 when none is.
FindAny(s, ts) ==
  IF \E i \in 1..Len(s) : s[i] \in ts
  THEN CHOOSE i \in 1..Len(s) : s[i] \in ts /\ \A j \in 1..(i - 1) : s[j] \notin ts
  ELSE Len(s) + 1

Prefix(s, n) == SubSeq(s, 1, n)

Suffix(s, n) == SubSeq(s, n, Len(s))

StartsWith(s, p) == Len(s) >= Len(p) /\ Prefix(s, Len(p)) = p

\* s.split("/")[0]
FirstSegment(s) == IF Find(s, "/") = 0 THEN s ELSE Prefix(s, Find(s, "/") - 1)

WWW == <<"www", ".">>

\* s.replace("www.", "", 1): the first occurrence of "www." is removed.
ReplaceFirstWww(s) ==
  IF \E i \in 1..(Len(s) - 1) : s[i] = "www" /\ s[i + 1] = "."
  THEN LET i == CHOOSE k \in 1..(Len(s) - 1) :
                  /\ s[k] = "www" /\ s[k + 1] = "."
                  /\ \A j \in 1..(k - 1) : ~(s[j] = "www" /\ s[j + 1] = ".")
       IN  Prefix(s, i - 1) \o Suffix(s, i + 2)
  ELSE s

\* os.path.splitext(p): <<root, ext>>; the extension starts at the last dot
\* of the last path segment, unless only dots precede it in that segment.
splitext(p) ==
  IF RFind(p, ".") > RFind(p, "/")
     /\ \E k \in (RFind(p, "/") + 1)..(RFind(p, ".") - 1) : p[k] # "."
  THEN <<Prefix(p, RFind(p, ".") - 1), Suffix(p, RFind(p, "."))>>
  ELSE <<p, <<>>>>

\* ------------------------------------------------------------------ URLs

\* The text before / after the first occurrence of token t (all of s / the
\* empty text when there is none).
Before(s, t) == IF Find(s, t) = 0 THEN s ELSE Prefix(s, Find(s, t) - 1)

After(s, t) == IF Find(s, t) = 0 THEN <<>> ELSE Suffix(s, Find(s, t) + 1)

UrlParts(scheme, netloc, path, query, fragment) ==
  [scheme |-> scheme, netloc |-> netloc, path |-> path,
   query |-> query, fragment |-> fragment]

\* urlparse, last step: the fragment follows the first "#", the query the
\* first "?" before it.
parse_path(scheme, netloc, rest) ==
  UrlParts(scheme, netloc, Before(Before(rest, "#"), "?"),
           After(Before(rest, "#"), "?"), After(rest, "#"))

\* urlparse, second step: after "//" the netloc runs to the next "/", "?" or "#".
parse_netloc(scheme, rest) ==
  IF StartsWith(rest, <<"/", "/">>)
  THEN parse_path(scheme,
                  SubSeq(rest, 3, FindAny(Suffix(rest, 3), {"/", "?", "#"}) + 1),
                  Suffix(rest, FindAny(Suffix(rest, 3), {"/", "?", "#"}) + 2))
  ELSE parse_path(scheme, <<>>, rest)

\* urllib.parse.urlparse(url); the scheme of a relative reference is empty.
urlparse(url) ==
  IF Len(url) >= 2 /\ url[2] = ":" /\ url[1] \notin {":", "/", ".", "?", "#"}
  THEN parse_netloc(<<url[1]>>, Suffix(url, 3))
  ELSE parse_netloc(<<>>, url)

\* urlunparse without query and fragment.
unparse_location(u) ==
  (IF u.scheme # <<>> THEN u.scheme \o <<":">> ELSE <<>>)
  \o (IF u.netloc # <<>> \/ (u.scheme # <<>> /\ ~StartsWith(u.path, <<"/", "/">>))
      THEN <<"/", "/">> \o u.netloc
           \o (IF u.path # <<>> /\ u.path[1] # "/" THEN <<"/">> ELSE <<>>)
      ELSE <<>>)
  \o u.path

\* urllib.parse.urlunparse(parts)
urlunparse(u) ==
  unparse_location(u)
  \o (IF u.query # <<>> THEN <<"?">> \o u.query ELSE <<>>)
  \o (IF u.fragment # <<>> THEN <<"#">> \o u.fragment ELSE <<>>)

\* The directory of a base path: the path without its last segment.
base_dir(path) == IF RFind(path, "/") = 0 THEN <<>> ELSE Prefix(path, RFind(path, "/") - 1)

\* urljoin once both are parsed and the reference has the base's scheme.
join_parsed(b, u) ==
  IF u.netloc # <<>> THEN urlunparse(u)
  ELSE IF u.path = <<>>
    THEN urlunparse(UrlParts(u.scheme, b.netloc, b.path,
                             IF u.query = <<>> THEN b.query ELSE u.query, u.fragment))
  ELSE IF u.path[1] = "/"
    THEN urlunparse(UrlParts(u.scheme, b.netloc, u.path, u.query, u.fragment))
  ELSE urlunparse(UrlParts(u.scheme, b.netloc, base_dir(b.path) \o <<"/">> \o u.path,
                           u.query, u.fragment))

\* urljoin once both are parsed: a reference with another scheme is returned
\* unchanged.
join_schemes(b, u, url) ==
  IF u.scheme # <<>> /\ u.scheme # b.scheme THEN url
  ELSE join_parsed(b, UrlParts(b.scheme, u.netloc, u.path, u.query, u.fragment))

\* Mutant of urljoin: the reference is appended to the base.
urljoin_appended(base, url) == base \o url

\* urllib.parse.urljoin(base, url) for references without "." and ".."
\* segments (none of the hrefs explored has one).
urljoin(base, url) ==
  IF base = <<>> THEN url
  ELSE IF url = <<>> THEN base
  ELSE join_schemes(urlparse(base), urlparse(url), url)

\* ------------------------------------------------------- explored inputs

DCOM == <<"d", ".", "com">>

\* Stored raw file names (the `name` of the storage event).
FileNames ==
  { DCOM \o <<"/", "page", ".", "html">>,
    WWW \o DCOM \o <<"/", "page", ".", "html">>,
    WWW \o WWW \o DCOM \o <<"/", "page", ".", "html">>,
    DCOM \o <<"/", "a", "/", "b", ".", "html">>,
    <<"page", ".", "html">>,
    DCOM \o <<"/", "page">> }

\* href attribute values: empty, fragment only, absolute path, relative
\* path, absolute URL.
HREF_EMPTY == <<>>
HREF_HASH  == <<"#">>
HREF_ROOT  == <<"/", "p", ".", "html">>
HREF_REL   == <<"p", ".", "html">>
HREF_ABS   == <<"https", ":", "/", "/", "external", ".", "com", "/", "r">>
HREF_OTHER == <<"/", "q">>

Elem(tag, class, has_href, href) ==
  [tag |-> tag, class |-> class, has_href |-> has_href, href |-> href]

\* The elements a document is built from.  `class` is the set of class names
\* of the element; the CSS selectors explored are class selectors.
Elements ==
  { Elem("a", {"result"}, TRUE, HREF_REL),
    Elem("a", {"next"}, TRUE, HREF_ABS),
    Elem("a", {"next"}, FALSE, <<>>),
    Elem("a", {}, TRUE, HREF_ROOT),
    Elem("a", {"result"}, TRUE, HREF_EMPTY),
    Elem("a", {"next", "result"}, TRUE, HREF_HASH),
    Elem("link", {"next"}, TRUE, HREF_OTHER) }

RECURSIVE SeqsUpTo(_, _)
SeqsUpTo(S, n) ==
  IF n = 0 THEN {<<>>}
  ELSE LET shorter == SeqsUpTo(S, n - 1)
       IN  shorter \cup {Append(s, e) : s \in {t \in shorter : Len(t) = n - 1}, e \in S}

\* Parsed documents: the elements in document order ("" parses to <<>>).
Documents == SeqsUpTo(Elements, MaxDocLen)

Rule(keys, nps, rls) ==
  [keys |-> keys, next_page_selector |-> nps, result_link_selector |-> rls]

BOTH == {"next_page_selector", "result_link_selector"}

\* Rule entries of config.json: `keys` are the members the entry sets.
RULE_EMPTY     == Rule({}, None, None)
RULE_FULL      == Rule(BOTH, "next", "result")
RULE_NULL_NEXT == Rule(BOTH, None, "result")
RULE_ONLY_NEXT == Rule({"next_page_selector"}, "next", None)

\* A configuration mapping is a set of <<domain, rule>> items with distinct
\* domains.
Mappings ==
  { a \cup b :
      a \in {{}} \cup {{<<DCOM, r>>} :
                r \in {RULE_EMPTY, RULE_FULL, RULE_NULL_NEXT, RULE_ONLY_NEXT}},
      b \in {{}} \cup {{<<WWW \o DCOM, r>>} : r \in {RULE_EMPTY, RULE_ONLY_NEXT}} }

\* config.json on disk: missing, text that is not JSON, bytes that are not
\* UTF-8 text, JSON that is no object (an array), or a JSON object.
ConfigFiles ==
  {[kind |-> "missing", mapping |-> {}], [kind |-> "malformed", mapping |-> {}],
   [kind |-> "undecodable", mapping |-> {}], [kind |-> "array", mapping |-> {}]}
  \cup {[kind |-> "object", mapping |-> m] : m \in Mappings}

\* The data of the storage event.
Events ==
  {[keys |-> {"bucket", "name"}, bucket |-> "raw-bucket", name |-> n] : n \in FileNames}
  \cup {[keys |-> {"name"}, bucket |-> None, name |-> DCOM \o <<"/", "page", ".", "html">>],
        [keys |-> {"bucket"}, bucket |-> "raw-bucket", name |-> <<>>]}

ProcessEnvirons ==
  [PROCESSED_DATA_BUCKET : {None, "processed-bucket"},
   CRAWL_QUEUE_TOPIC : {None, "crawl-queue"}]

\* What the collaborators answer during one process_data invocation.
DownloadErrors == {"NotFound", "Forbidden", "UnicodeDecodeError", "ServiceUnavailable"}

\* publish() returns a future ("ok": it resolves; "unacknowledged": it never
\* does) or raises ("error").
PublishAnswers == {"ok", "unacknowledged", "error"}

ProcessWorlds ==
  [download : {"ok"} \cup DownloadErrors, doc : Documents,
   upload : {"ok", "GoogleAPICallError"}, publish : PublishAnswers]

\* ----------------------------------------------------------- collaborators

Call(op, target, key, body, ctype) ==
  [op |-> op, target |-> target, key |-> key, body |-> body, ctype |-> ctype]

\* json.dumps of the processed record: its members in insertion order.
json_dumps_processed(pd) ==
  << <<"source_file", pd.source_file>>,
     <<"next_page_url", pd.next_page_url>>,
     <<"result_urls", pd.result_urls>> >>

\* Mutant of json_dumps_url: the member is named as in the processed record.
json_dumps_next_page_url(url) == << <<"next_page_url", url>> >>

\* json.dumps({"url": url}).encode("utf-8")
json_dumps_url(url) == << <<"url", url>> >>

\* ------------------------------------------------------------ load_config

\* main.py 21-40: the exception load_config() lets through, None when it
\* returns.  FileNotFoundError and JSONDecodeError are handled; the
\* UnicodeDecodeError that f.read() raises inside json.load is not.
load_config_error(cf) == IF cf.kind = "undecodable" THEN "UnicodeDecodeError" ELSE None

\* load_config(): the parsed JSON, or {} when the file is missing or is not
\* JSON.  `is_dict` tells whether the value returned has a .get method.
load_config(cf) ==
  IF cf.kind = "object" THEN [is_dict |-> TRUE, mapping |-> cf.mapping]
  ELSE IF cf.kind = "array" THEN [is_dict |-> FALSE, mapping |-> {}]
  ELSE [is_dict |-> TRUE, mapping |-> {}]

\* dict.get(key) on the configuration mapping: <<rule>> or <<>> (None).
config_get(mapping, domain) ==
  IF \E item \in mapping : item[1] = domain
  THEN <<(CHOOSE item \in mapping : item[1] = domain)[2]>>
  ELSE <<>>

\* bool(x) of an Optional rule entry: None and the empty dict are false.
RuleTruthy(opt) == opt # <<>> /\ opt[1].keys # {}

\* dict.get(key) on a rule entry.
rule_get(rule, key) == IF key \in rule.keys THEN rule[key] ELSE None

\* main.py 216
file_domain(file_name) == FirstSegment(file_name)

\* main.py 219-223: config.get(domain) or (config.get(stripped) if
\* domain.startswith("www.") else None)
lookup_domain_config(mapping, domain) ==
  LET exact == config_get(mapping, domain)
  IN  IF RuleTruthy(exact) THEN exact
      ELSE IF StartsWith(domain, WWW) THEN config_get(mapping, ReplaceFirstWww(domain))
      ELSE <<>>

\* main.py 235 and 274
base_url(domain) == <<"https", ":", "/", "/">> \o domain

\* ------------------------------------------------------------- extraction

\* A class selector matches the elements that carry the class.
Matches(e, selector) == selector \in e.class

\* soup.select(selector): every match, in document order.
select(doc, selector) == SelectSeq(doc, LAMBDA e : Matches(e, selector))

\* Mutant of select_one: the last match is taken.
select_one_last(doc, selector) ==
  IF select(doc, selector) = <<>> THEN <<>> ELSE <<Last(select(doc, selector))>>

\* soup.select_one(selector): the first match or None.
select_one(doc, selector) ==
  LET found == select(doc, selector)
  IN  IF found = <<>> THEN <<>> ELSE <<Head(found)>>

\* Mutant of find_all_a: soup.find("a"), the first anchor alone.
find_first_a(doc) ==
  IF SelectSeq(doc, LAMBDA e : e.tag = "a") = <<>> THEN <<>>
  ELSE <<Head(SelectSeq(doc, LAMBDA e : e.tag = "a"))>>

\* soup.find_all("a")
find_all_a(doc) == SelectSeq(doc, LAMBDA e : e.tag = "a")

\* Mutant of has_href: tag.get("href") is not None, an empty href passes.
href_present(e) == e.has_href

\* bool(tag.get("href")): the attribute is present and not empty.
has_href(e) == e.has_href /\ e.href # <<>>

\* for tag in tags: if tag.get("href"): append(urljoin(base_url, tag["href"]))
collect_hrefs(tags, base) ==
  LET kept == SelectSeq(tags, has_href)
  IN  [i \in 1..Len(kept) |-> urljoin(base, kept[i].href)]

\* Mutant of extract_next_page_url: the href of the first match is not
\* tested.
extract_next_page_url_any_match(doc, rule, base) ==
  IF ~Truthy(rule_get(rule, "next_page_selector")) THEN <<>>
  ELSE IF select_one(doc, rule_get(rule, "next_page_selector")) = <<>> THEN <<>>
  ELSE <<urljoin(base, select_one(doc, rule_get(rule, "next_page_selector"))[1].href)>>

\* main.py 237-243
extract_next_page_url(doc, rule, base) ==
  LET next_page_selector == rule_get(rule, "next_page_selector")
  IN  IF ~Truthy(next_page_selector) THEN <<>>
      ELSE LET next_link_tag == select_one(doc, next_page_selector)
           IN  IF next_link_tag # <<>> /\ has_href(next_link_tag[1])
               THEN <<urljoin(base, next_link_tag[1].href)>>
               ELSE <<>>

\* main.py 245-252
extract_result_urls(doc, rule, base) ==
  LET result_link_selector == rule_get(rule, "result_link_selector")
  IN  IF ~Truthy(result_link_selector) THEN <<>>
      ELSE collect_hrefs(select(doc, result_link_selector), base)

\* main.py 225-258: the branch taken when domain_config is true.
configured_extraction(doc, rule, domain, file_name) ==
  [source_file   |-> file_name,
   next_page_url |-> extract_next_page_url(doc, rule, base_url(domain)),
   result_urls   |-> extract_result_urls(doc, rule, base_url(domain))]

\* main.py 264-285: the branch taken otherwise.
fallback_extraction(doc, domain, file_name) ==
  [source_file   |-> file_name,
   next_page_url |-> <<>>,
   result_urls   |-> collect_hrefs(find_all_a(doc), base_url(domain))]

\* Mutant of processed_file_name: ".json" is appended to the whole name.
processed_file_name_appended(file_name) == file_name \o <<".", "json">>

\* main.py 290
processed_file_name(file_name) == splitext(file_name)[1] \o <<".", "json">>

\* Mutant of should_publish: the topic is not looked at.
should_publish_any_topic(next_page_url, crawl_queue_topic) ==
  next_page_url # <<>> /\ next_page_url[1] # <<>>

\* main.py 298
should_publish(next_page_url, crawl_queue_topic) ==
  next_page_url # <<>> /\ next_page_url[1] # <<>> /\ Truthy(crawl_queue_topic)

\* ----------------------------------------------------------- process_data

NoMessage == [text |-> "", url |-> <<>>, detail |-> "", blob |-> <<>>]

\* Mutant of Ended: the message is published before the processed bucket is
\* opened and the blob is written.
EndedPublishFirst(made, outcome, error, branch, processed, used) ==
  [calls |-> IF made # <<>> /\ Last(made).op = "publish"
             THEN Prefix(made, Len(made) - 3) \o <<Last(made)>>
                  \o SubSeq(made, Len(made) - 2, Len(made) - 1)
             ELSE made,
   outcome |-> outcome, error |-> error, branch |-> branch,
   processed |-> processed, status |-> None, message |-> NoMessage, used |-> used]

\* What one invocation leaves behind: the external calls it made (in order),
\* how it ended and what it computed.  `used` names the collaborator answers
\* the invocation consulted.
Ended(made, outcome, error, branch, processed, used) ==
  [calls |-> made, outcome |-> outcome, error |-> error, branch |-> branch,
   processed |-> processed, status |-> None, message |-> NoMessage, used |-> used]

\* main.py 330-335: the exception types of the first handler.
KnownErrors == {"NotFound", "Forbidden", "UnicodeDecodeError", "KeyError"}

Caught(error) == IF error \in KnownErrors THEN "error_logged" ELSE "unexpected_error_logged"

\* Mutant of event_get_error: only data["name"] is read.
event_get_error_name_only(ev) == IF "name" \notin ev.keys THEN "KeyError" ELSE None

\* main.py 193-195: data["bucket"] and data["name"] raise KeyError when the
\* event data lacks the key.
event_get_error(ev) ==
  IF "bucket" \notin ev.keys \/ "name" \notin ev.keys THEN "KeyError" ELSE None

\* main.py 168-362.  load_config() is called before the try statement (178):
\* what it raises leaves process_data.
process_data(env, cf, ev, w) ==
  LET processed_data_bucket == env.PROCESSED_DATA_BUCKET
      crawl_queue_topic     == env.CRAWL_QUEUE_TOPIC
      config                == load_config(cf)
  IN
  IF load_config_error(cf) # None
  THEN Ended(<<>>, "exception_escaped", load_config_error(cf), "none", <<>>, {})
  ELSE IF ~Truthy(processed_data_bucket)
  THEN Ended(<<>>, "configuration_error", None, "none", <<>>, {})
  ELSE IF event_get_error(ev) # None
  THEN Ended(<<>>, Caught(event_get_error(ev)), event_get_error(ev), "none", <<>>, {})
  ELSE
    LET bucket_name == ev.bucket
        file_name   == ev.name
        c1 == << Call("bucket", bucket_name, <<>>, <<>>, ""),
                 Call("download", bucket_name, file_name, <<>>, "") >>
    IN
    IF w.download # "ok"
    THEN Ended(c1, Caught(w.download), w.download, "none", <<>>, {"download"})
    ELSE IF ~config.is_dict
    THEN Ended(c1, Caught("AttributeError"), "AttributeError", "none", <<>>,
               {"download", "doc"})
    ELSE
      LET doc            == w.doc
          domain         == file_domain(file_name)
          domain_config  == lookup_domain_config(config.mapping, domain)
          configured     == RuleTruthy(domain_config)
          processed_data == IF configured
                            THEN configured_extraction(doc, domain_config[1], domain, file_name)
                            ELSE fallback_extraction(doc, domain, file_name)
          branch         == IF configured THEN "configured" ELSE "fallback"
          c2 == c1 \o << Call("bucket", processed_data_bucket, <<>>, <<>>, ""),
                         Call("upload", processed_data_bucket,
                              processed_file_name(file_name),
                              json_dumps_processed(processed_data), "application/json") >>
          next_page_url  == processed_data.next_page_url
      IN
      IF w.upload # "ok"
      THEN Ended(c2, Caught(w.upload), w.upload, branch, <<processed_data>>,
                 {"download", "doc", "upload"})
      ELSE IF should_publish(next_page_url, crawl_queue_topic)
      THEN LET c3 == Append(c2, Call("publish", crawl_queue_topic, <<>>,
                                     json_dumps_url(next_page_url[1]), ""))
           IN  IF w.publish = "error"
               THEN Ended(c3, Caught("PublishError"), "PublishError", branch,
                          <<processed_data>>, {"download", "doc", "upload", "publish"})
               ELSE Ended(c3, "success", None, branch, <<processed_data>>,
                          {"download", "doc", "upload", "publish"})
      ELSE Ended(c2, "success", None, branch, <<processed_data>>,
                 {"download", "doc", "upload"})


\* ------------------------------------------------------ scrape_and_upload

HTTP_D == <<"http", ":", "/", "/">> \o DCOM

\* Target URLs carried by the trigger.
Urls ==
  { HTTP_D,
    HTTP_D \o <<"/">>,
    HTTP_D \o <<"/", "a", ".", "html">>,
    <<"https", ":", "/", "/">> \o DCOM \o <<"/", "a", ".", "html", "?", "x", "#", "f">>,
    HTTP_D \o <<"/", "a">>,
    HTTP_D \o <<"/", "a", "/">>,
    HTTP_D \o <<"/", "a", ".", "b", "/", "c">> }

\* The JSON value inside the message data.  `type` is its JSON type; an
\* object has the members `keys`; `url` is the value of its "url" member
\* (<<>> for JSON null, <<u>> for the string u).
Payload(type, keys, url) == [type |-> type, keys |-> keys, url |-> url]

Payloads ==
  {Payload("object", {"url"}, <<u>>) : u \in Urls}
  \cup { Payload("object", {}, <<>>),
         Payload("object", {"url"}, << <<>> >>),
         Payload("object", {"url"}, <<>>),
         Payload("array", {}, <<>>),
         Payload("string", {}, <<>>),
         Payload("null", {}, <<>>) }

\* message["data"]: whether it is decodable base64, whether the bytes are
\* UTF-8, whether the text is JSON, and the JSON value.
Data(b64, utf8, json, payload) ==
  [b64 |-> b64, utf8 |-> utf8, json |-> json, payload |-> payload]

Datas ==
  { Data(FALSE, FALSE, FALSE, Payload("null", {}, <<>>)),
    Data(TRUE, FALSE, FALSE, Payload("null", {}, <<>>)),
    Data(TRUE, TRUE, FALSE, Payload("null", {}, <<>>)) }
  \cup {Data(TRUE, TRUE, TRUE, p) : p \in Payloads}

\* The request: `body` is what request.get_json(silent=True) sees.
Request(body, message_keys, data) ==
  [body |-> body, message_keys |-> message_keys, data |-> data]

NoData == Data(FALSE, FALSE, FALSE, Payload("null", {}, <<>>))

Requests ==
  { Request("not_json", {}, NoData),
    Request("empty_object", {}, NoData),
    Request("object_without_message", {}, NoData),
    Request("object_with_message", {"message_id"}, NoData) }
  \cup {Request("object_with_message", {"data", "message_id"}, d) : d \in Datas}

ScrapeEnvirons == [RAW_DATA_BUCKET : {None, "", "raw-bucket"}]

\* What requests.get answers: an exception, or a response with a status.
Fetch(kind, status_code, detail) ==
  [kind |-> kind, status_code |-> status_code, detail |-> detail]

Fetches ==
  { Fetch("Timeout", 0, "Connection timed out"),
    Fetch("ConnectionError", 0, "Failed to establish a new connection"),
    Fetch("response", 200, ""),
    Fetch("response", 204, ""),
    Fetch("response", 304, ""),
    Fetch("response", 404, "404 Client Error"),
    Fetch("response", 503, "503 Server Error") }

\* main.py 70-71: request_json is None or an empty dict, or has no "message".
message_missing(request) ==
  request.body \in {"not_json", "empty_object", "object_without_message"}

\* main.py 85-86: the exception raised while decoding the data, None when
\* base64.b64decode, bytes.decode and json.loads all succeed.
decode_error(data) ==
  IF ~data.b64 THEN "binascii.Error"
  ELSE IF ~data.utf8 THEN "UnicodeDecodeError"
  ELSE IF ~data.json THEN "JSONDecodeError"
  ELSE None

\* main.py 87: payload.get("url") raises AttributeError unless payload is a dict.
payload_get_error(payload) == IF payload.type = "object" THEN None ELSE "AttributeError"

\* payload.get("url"): <<>> for None (missing or null), else <<url>>.
payload_get_url(payload) == IF "url" \in payload.keys THEN payload.url ELSE <<>>

\* Mutant of fetch_error: only a 4xx status raises.
fetch_error_4xx_only(fetch) ==
  IF fetch.kind # "response" THEN fetch.kind
  ELSE IF 400 <= fetch.status_code /\ fetch.status_code < 500 THEN "HTTPError"
  ELSE None

\* main.py 97-99: requests.get raises, or response.raise_for_status() raises
\* HTTPError for a 4xx or 5xx status.
fetch_error(fetch) ==
  IF fetch.kind # "response" THEN fetch.kind
  ELSE IF 400 <= fetch.status_code /\ fetch.status_code < 600 THEN "HTTPError"
  ELSE None

\* Mutant of raw_file_name: ".html" is added without looking for an extension.
raw_file_name_html_added(target_url) ==
  IF urlparse(target_url).path # <<>> /\ Last(urlparse(target_url).path) = "/"
  THEN urlparse(target_url).netloc \o urlparse(target_url).path \o <<"index", ".", "html">>
  ELSE IF urlparse(target_url).path = <<>>
  THEN urlparse(target_url).netloc \o <<"/", "index", ".", "html">>
  ELSE urlparse(target_url).netloc \o urlparse(target_url).path \o <<".", "html">>

\* Mutant of raw_file_name: the root URL is not told from a path without
\* extension.
raw_file_name_no_root_case(target_url) ==
  IF Last(urlparse(target_url).netloc \o urlparse(target_url).path) = "/"
  THEN urlparse(target_url).netloc \o urlparse(target_url).path \o <<"index", ".", "html">>
  ELSE IF splitext(urlparse(target_url).netloc \o urlparse(target_url).path)[2] = <<>>
  THEN urlparse(target_url).netloc \o urlparse(target_url).path \o <<".", "html">>
  ELSE urlparse(target_url).netloc \o urlparse(target_url).path

\* Mutant of raw_file_name: the query string is kept in the key.
raw_file_name_keeps_query(target_url) ==
  LET parsed_url == urlparse(target_url)
      filename   == parsed_url.netloc \o parsed_url.path
      query      == IF parsed_url.query = <<>> THEN <<>> ELSE <<"?">> \o parsed_url.query
  IN  IF filename # <<>> /\ Last(filename) = "/" THEN filename \o <<"index", ".", "html">> \o query
      ELSE IF parsed_url.path = <<>> THEN filename \o <<"/", "index", ".", "html">> \o query
      ELSE IF splitext(filename)[2] = <<>> THEN filename \o <<".", "html">> \o query
      ELSE filename \o query

\* main.py 103-116
raw_file_name(target_url) ==
  LET parsed_url == urlparse(target_url)
      filename   == parsed_url.netloc \o parsed_url.path
  IN  IF filename # <<>> /\ Last(filename) = "/" THEN filename \o <<"index", ".", "html">>
      ELSE IF parsed_url.path = <<>> THEN filename \o <<"/", "index", ".", "html">>
      ELSE IF splitext(filename)[2] = <<>> THEN filename \o <<".", "html">>
      ELSE filename

\* Mutant of error_status: an HTTPError is answered like a bad message.
error_status_http_error_400(error) ==
  IF error \in {"JSONDecodeError", "UnicodeDecodeError", "HTTPError"} THEN 400 ELSE 500

\* main.py 139-164: the status each except clause returns.
error_status(error) ==
  IF error \in {"JSONDecodeError", "UnicodeDecodeError"} THEN 400 ELSE 500

Message(text, url, detail, blob) ==
  [text |-> text, url |-> url, detail |-> detail, blob |-> blob]

\* main.py 139-164: the message each except clause returns.
error_message(error, target_url, detail) ==
  IF error \in {"JSONDecodeError", "UnicodeDecodeError"}
  THEN Message("Error decoding Pub/Sub message data", <<>>, error, <<>>)
  ELSE IF error \in {"Timeout", "ConnectionError", "HTTPError"}
  THEN Message("Error fetching URL", target_url, detail, <<>>)
  ELSE Message("Error during GCS upload or other failure", <<>>, detail, <<>>)

Returned(made, status, message, outcome, error, used) ==
  [calls |-> made, outcome |-> outcome, error |-> error, branch |-> "none",
   processed |-> <<>>, status |-> status, message |-> message, used |-> used]

\* Mutant of Raised: the operation that failed is attempted a second time
\* before the error is reported.
RaisedAfterRetry(made, error, target_url, detail, used) ==
  Returned(IF made = <<>> THEN made ELSE Append(made, Last(made)),
           error_status(error), error_message(error, target_url, detail),
           "exception_caught", error, used)

\* main.py 139-164: an exception raised inside the try statement is answered
\* by the except clause of its type.
Raised(made, error, target_url, detail, used) ==
  Returned(made, error_status(error), error_message(error, target_url, detail),
           "exception_caught", error, used)

\* main.py 48-164
scrape_and_upload(env, request, w) ==
  LET raw_data_bucket == env.RAW_DATA_BUCKET
  IN
  IF ~Truthy(raw_data_bucket)
  THEN Returned(<<>>, 500,
                Message("Configuration error: RAW_DATA_BUCKET environment variable not set.",
                        <<>>, "", <<>>),
                "configuration_error", None, {})
  ELSE IF message_missing(request)
  THEN Returned(<<>>, 400,
                Message("Invalid Pub/Sub message format: missing 'message' key.", <<>>, "", <<>>),
                "invalid_trigger", None, {})
  ELSE IF "data" \notin request.message_keys
  THEN Returned(<<>>, 400,
                Message("Invalid Pub/Sub message format: missing 'data' key in 'message'.",
                        <<>>, "", <<>>),
                "invalid_trigger", None, {})
  ELSE IF decode_error(request.data) # None
  THEN Raised(<<>>, decode_error(request.data), <<>>, decode_error(request.data), {})
  ELSE IF payload_get_error(request.data.payload) # None
  THEN Raised(<<>>, payload_get_error(request.data.payload), <<>>,
              payload_get_error(request.data.payload), {})
  ELSE
    LET url == payload_get_url(request.data.payload)
    IN
    IF url = <<>> \/ url[1] = <<>>
    THEN Returned(<<>>, 400,
                  Message("URL not found in Pub/Sub message payload.", <<>>, "", <<>>),
                  "invalid_trigger", None, {})
    ELSE
      LET target_url == url[1]
          c1 == << Call("get", "", target_url, <<>>, "") >>
      IN
      IF fetch_error(w.fetch) # None
      THEN Raised(c1, fetch_error(w.fetch), url, w.fetch.detail, {"fetch"})
      ELSE
        LET filename == raw_file_name(target_url)
            c2 == c1 \o << Call("bucket", raw_data_bucket, <<>>, <<>>, ""),
                           Call("upload", raw_data_bucket, filename,
                                <<"html", target_url>>, "text/html") >>
        IN
        IF w.upload # "ok"
        THEN Raised(c2, w.upload, url, "GCS upload failed", {"fetch", "upload"})
        ELSE Returned(c2, 200, Message("Successfully scraped", url, "", filename),
                      "success", None, {"fetch", "upload"})

\* ------------------------------------------------------------ the system

\* The answers an invocation never consults are left at these defaults, so
\* that one run is one state.
DefaultWorld ==
  [fetch |-> Fetch("response", 200, ""), download |-> "ok", doc |-> <<>>,
   upload |-> "ok", publish |-> "ok"]

Idle ==
  [outcome |-> "none", error |-> None, branch |-> "none",
   processed |-> <<>>, status |-> None, message |-> NoMessage]

NoTrigger == [keys |-> {}, bucket |-> None, name |-> <<>>]

NoEnviron == [RAW_DATA_BUCKET |-> None]

NoConfigFile == [kind |-> "missing", mapping |-> {}]

\* The raw bucket before anything is stored: no key, no blob.
EmptyBucket == [key \in {} |-> <<>>]

\* The functions are deployed and wait for a trigger.
Init ==
  /\ raw_bucket = EmptyBucket
  /\ scraped = <<>>
  /\ pc = "idle"
  /\ handler = "none"
  /\ environ = NoEnviron
  /\ config_file = NoConfigFile
  /\ trigger = NoTrigger
  /\ world = DefaultWorld
  /\ calls = <<>>
  /\ result = Idle

\* A Pub/Sub push request reaches scrape_and_upload.
ReceiveRequest ==
  /\ pc = "idle"
  /\ \E env \in ScrapeEnvirons, request \in Requests :
       /\ environ' = env
       /\ trigger' = request
  /\ pc' = "triggered"
  /\ handler' = "scrape_and_upload"
  /\ UNCHANGED <<config_file, world, calls, result, raw_bucket, scraped>>

\* A storage event reaches process_data.
ReceiveEvent ==
  /\ pc = "idle"
  /\ \E env \in ProcessEnvirons, cf \in ConfigFiles, ev \in Events :
       /\ environ' = env
       /\ config_file' = cf
       /\ trigger' = ev
  /\ pc' = "triggered"
  /\ handler' = "process_data"
  /\ UNCHANGED <<world, calls, result, raw_bucket, scraped>>

\* main.py 119-121: blob.upload_from_string(body) writes the blob under the
\* key; a blob already stored under the key is replaced.
upload_from_string(bucket, key, body) ==
  [k \in DOMAIN bucket \cup {key} |-> IF k = key THEN body ELSE bucket[k]]

\* scrape_and_upload reaches its success return (main.py 137) when its last
\* call, the upload, went through; process_data writes nothing to the raw
\* bucket.
uploaded_raw(h, r) == h = "scrape_and_upload" /\ r.outcome = "success"

\* The raw bucket after an invocation of handler h.
stored(bucket, h, r) ==
  IF uploaded_raw(h, r)
  THEN upload_from_string(bucket, Last(r.calls).key, Last(r.calls).body)
  ELSE bucket

\* The successful scrapes so far: the URL and the key of each, in order.
recorded(history, h, r) ==
  IF uploaded_raw(h, r)
  THEN Append(history, [url |-> r.message.url[1], key |-> Last(r.calls).key])
  ELSE history

\* The invocation ran to its end: the calls it made and how it ended.
Finish(w, r) ==
  /\ pc' = "done"
  /\ raw_bucket' = stored(raw_bucket, handler, r)
  /\ scraped' = recorded(scraped, handler, r)
  /\ world' = w
  /\ calls' = r.calls
  /\ result' = [outcome |-> r.outcome, error |-> r.error, branch |-> r.branch,
                processed |-> r.processed, status |-> r.status, message |-> r.message]
  /\ UNCHANGED <<handler, environ, config_file, trigger>>

\* One invocation of scrape_and_upload, from the request to the response.
ScrapeAndUpload ==
  /\ pc = "triggered"
  /\ handler = "scrape_and_upload"
  /\ \E f \in (IF "fetch" \in scrape_and_upload(environ, trigger, DefaultWorld).used
               THEN Fetches ELSE {DefaultWorld.fetch}) :
       \E up \in (IF fetch_error(f) = None
                     /\ "upload" \in scrape_and_upload(environ, trigger, DefaultWorld).used
                  THEN {"ok", "GoogleAPICallError"} ELSE {"ok"}) :
         Finish([DefaultWorld EXCEPT !.fetch = f, !.upload = up],
                scrape_and_upload(environ, trigger,
                                  [DefaultWorld EXCEPT !.fetch = f, !.upload = up]))

\* The answers process_data can get after the download: the upload can fail
\* when it is attempted, the publish when the upload succeeded and a message
\* is published.
AnswersAfter(w1, r1) ==
  { [w1 EXCEPT !.upload = up, !.publish = pb] :
      up \in (IF "upload" \in r1.used THEN {"ok", "GoogleAPICallError"} ELSE {"ok"}),
      pb \in (IF "publish" \in r1.used THEN PublishAnswers ELSE {"ok"}) }
  \ { [w1 EXCEPT !.upload = "GoogleAPICallError", !.publish = pb] :
        pb \in PublishAnswers \ {"ok"} }

\* One invocation of process_data, from the storage event to its return.
ProcessData ==
  /\ pc = "triggered"
  /\ handler = "process_data"
  /\ \E dl \in (IF "download" \in process_data(environ, config_file, trigger, DefaultWorld).used
                THEN {"ok"} \cup DownloadErrors ELSE {"ok"}) :
       \E doc \in (IF dl = "ok"
                      /\ "doc" \in process_data(environ, config_file, trigger, DefaultWorld).used
                   THEN Documents ELSE {<<>>}) :
         \E w \in AnswersAfter([DefaultWorld EXCEPT !.download = dl, !.doc = doc],
                               process_data(environ, config_file, trigger,
                                            [DefaultWorld EXCEPT !.download = dl, !.doc = doc])) :
           Finish(w, process_data(environ, config_file, trigger, w))

\* The invocation is over; the instance waits for the next trigger.  Nothing
\* of an invocation is kept (the handlers are stateless), and the next one is
\* explored from the initial state, buckets included.
Return ==
  /\ pc = "done"
  /\ raw_bucket' = EmptyBucket
  /\ scraped' = <<>>
  /\ pc' = "idle"
  /\ handler' = "none"
  /\ environ' = NoEnviron
  /\ config_file' = NoConfigFile
  /\ trigger' = NoTrigger
  /\ world' = DefaultWorld
  /\ calls' = <<>>
  /\ result' = Idle

Next == ReceiveRequest \/ ReceiveEvent \/ ScrapeAndUpload \/ ProcessData \/ Return

Spec == Init /\ [][Next]_vars

\* Successive scrapes on one raw bucket: what a scrape stored is there for the
\* next one.
ReceiveNextRequest == Len(scraped) < MaxScrapes /\ ReceiveRequest

ReturnKeepingBucket ==
  /\ pc = "done"
  /\ pc' = "idle"
  /\ handler' = "none"
  /\ environ' = NoEnviron
  /\ trigger' = NoTrigger
  /\ world' = DefaultWorld
  /\ calls' = <<>>
  /\ result' = Idle
  /\ UNCHANGED <<config_file, raw_bucket, scraped>>

NextScrape == ReceiveNextRequest \/ ScrapeAndUpload \/ ReturnKeepingBucket

SpecScrapes == Init /\ [][NextScrape]_vars

\* ------------------------------------------------------------- properties

TypeOK ==
  /\ pc \in {"idle", "triggered", "done"}
  /\ handler \in {"none", "scrape_and_upload", "process_data"}
  /\ world.doc \in Documents
  /\ world.download \in {"ok"} \cup DownloadErrors
  /\ world.publish \in PublishAnswers

ProcessDone == pc = "done" /\ handler = "process_data"

ScrapeDone == pc = "done" /\ handler = "scrape_and_upload"

\* process_data got as far as the extraction: the bucket is configured, the
\* event names the file, the download succeeded and config.json was loaded
\* as a mapping (it is missing, is not JSON or holds a JSON object).
Reached ==
  /\ ProcessDone
  /\ Truthy(environ.PROCESSED_DATA_BUCKET)
  /\ trigger.keys = {"bucket", "name"}
  /\ world.download = "ok"
  /\ config_file.kind \notin {"array", "undecodable"}

\* The extraction was completed: there is a processed record.
Extracted == ProcessDone /\ result.processed # <<>>

Output == result.processed[1]

Doc == world.doc

Domain == FirstSegment(trigger.name)

BaseUrl == base_url(Domain)

\* The domain rules config.json holds (none when it is missing or malformed).
Entries == IF config_file.kind = "object" THEN config_file.mapping ELSE {}

HasEntry(domain) == \E item \in Entries : item[1] = domain

EntryOf(domain) == (CHOOSE item \in Entries : item[1] = domain)[2]

\* The value a rule entry gives a selector: None when it does not set it.
SelectorOf(rule, key) == IF key \in rule.keys THEN rule[key] ELSE None

CallsOf(op) == {i \in 1..Len(calls) : calls[i].op = op}

NonEmptyHref(i) == Doc[i].has_href /\ Doc[i].href # <<>>

\* The positions of the document whose element carries the selector's class.
MatchedBy(selector) ==
  {i \in 1..Len(Doc) : Truthy(selector) /\ selector \in Doc[i].class}

Anchors == {i \in 1..Len(Doc) : Doc[i].tag = "a"}

Least(S) == CHOOSE i \in S : \A j \in S : i <= j

\* urls holds exactly one entry for every position in S, in document order:
\* the href of the element at that position, resolved against base.
OneEntryEach(urls, S, base) ==
  /\ Len(urls) = Cardinality(S)
  /\ \A i \in S : urls[Cardinality({j \in S : j <= i})] = urljoin(base, Doc[i].href)

\* The JSON document with the link shape, as it is uploaded.
LinkShape(source_file, next_page_url, result_urls) ==
  << <<"source_file", source_file>>,
     <<"next_page_url", next_page_url>>,
     <<"result_urls", result_urls>> >>

HTTP == <<"http", ":", "/", "/">>

\* C1: for a file of domain www.X, when the configuration has no entry for
\* www.X and has one for X, the configured extraction runs with X's rule:
\* result_urls holds the anchors X's result_link_selector matches, and only
\* those.
C1_WwwAliasUsesRuleOfX ==
  ( /\ Reached
    /\ StartsWith(Domain, WWW)
    /\ ~HasEntry(Domain)
    /\ HasEntry(Suffix(Domain, 3)) )
  => /\ Extracted
     /\ OneEntryEach(Output.result_urls,
                     {i \in MatchedBy(SelectorOf(EntryOf(Suffix(Domain, 3)),
                                                 "result_link_selector")) : NonEmptyHref(i)},
                     BaseUrl)

\* C2: when a rule is selected, next_page_url is the resolved href of the
\* first element that next_page_selector matches (null when that element has
\* no href, whatever follows it), and result_urls holds one resolved entry
\* for every element result_link_selector matches that has a non-empty href,
\* in document order, duplicates kept.
C2_ConfiguredExtraction ==
  (Extracted /\ result.branch = "configured")
  => LET rule == lookup_domain_config(Entries, Domain)[1]
         next == MatchedBy(SelectorOf(rule, "next_page_selector"))
         links == MatchedBy(SelectorOf(rule, "result_link_selector"))
     IN  /\ Output.next_page_url =
              IF next # {} /\ NonEmptyHref(Least(next))
              THEN <<urljoin(BaseUrl, Doc[Least(next)].href)>>
              ELSE <<>>
         /\ OneEntryEach(Output.result_urls, {i \in links : NonEmptyHref(i)}, BaseUrl)

\* C2 witness: two elements match next_page_selector, the first has no href
\* and the second has one; the second also matches result_link_selector.
C2_Witness ==
  /\ Extracted
  /\ result.branch = "configured"
  /\ Len(Doc) = 2
  /\ MatchedBy("next") = {1, 2}
  /\ ~Doc[1].has_href
  /\ NonEmptyHref(2)
  /\ Output.next_page_url = <<>>
  /\ Len(Output.result_urls) = 1

\* The configuration holds no entry for the domain, nor (for a www. domain)
\* for the domain without the prefix.
NoRuleFound ==
  /\ ~HasEntry(Domain)
  /\ StartsWith(Domain, WWW) => ~HasEntry(Suffix(Domain, 3))

ClaimedUrl(href) ==
  IF href = HREF_ABS THEN href
  ELSE IF href[1] = "/" THEN HTTP \o Domain \o href
  ELSE HTTP \o Domain \o <<"/">> \o href

\* C4: every extracted href is resolved against http://<domain>, the www.
\* prefix kept: "/p.html" and "p.html" become http://<domain>/p.html and an
\* absolute href is written unchanged, in both branches.
C4_ResolvedAgainstHttpDomain ==
  ( /\ Extracted
    /\ \A i \in 1..Len(Doc) :
         NonEmptyHref(i) => Doc[i].href \in {HREF_ROOT, HREF_REL, HREF_ABS, HREF_OTHER} )
  => LET claimed == {ClaimedUrl(Doc[i].href) : i \in {j \in 1..Len(Doc) : NonEmptyHref(j)}}
     IN  /\ \A k \in 1..Len(Output.result_urls) : Output.result_urls[k] \in claimed
         /\ Output.next_page_url # <<>> => Output.next_page_url[1] \in claimed

\* C5: for every rule entry the configuration holds for the file's domain
\* (one that sets no selector included), result_urls is empty when
\* result_link_selector is absent, null or matches nothing, next_page_url is
\* null when next_page_selector is absent, null or matches nothing, the
\* extraction raises nothing and the output is uploaded.
C5_EntryWithUnsetSelectors ==
  (Reached /\ HasEntry(Domain))
  => /\ Extracted
     /\ CallsOf("upload") # {}
     /\ result.error \in {None, "GoogleAPICallError", "PublishError"}
     /\ MatchedBy(SelectorOf(EntryOf(Domain), "result_link_selector")) = {}
          => Output.result_urls = <<>>
     /\ MatchedBy(SelectorOf(EntryOf(Domain), "next_page_selector")) = {}
          => Output.next_page_url = <<>>

\* The positions the branch taken draws result_urls from.
Selected ==
  IF result.branch = "configured"
  THEN MatchedBy(SelectorOf(lookup_domain_config(Entries, Domain)[1], "result_link_selector"))
  ELSE Anchors

\* The positions the branch taken draws next_page_url from.
NextMatches ==
  IF result.branch = "configured"
  THEN MatchedBy(SelectorOf(lookup_domain_config(Entries, Domain)[1], "next_page_selector"))
  ELSE {}

MissingOrEmptyHref(i) == ~Doc[i].has_href \/ Doc[i].href = <<>>

FragmentOnlyHref(i) == Doc[i].has_href /\ Doc[i].href = HREF_HASH

\* C6 as stated: in both branches an element whose href is missing, empty or
\* "#" contributes no entry to result_urls and never becomes next_page_url.
C6_SkipsMissingEmptyAndFragmentHrefs ==
  Extracted
  => /\ OneEntryEach(Output.result_urls,
                     {i \in Selected : ~MissingOrEmptyHref(i) /\ ~FragmentOnlyHref(i)},
                     BaseUrl)
     /\ ( /\ NextMatches # {}
          /\ MissingOrEmptyHref(Least(NextMatches)) \/ FragmentOnlyHref(Least(NextMatches)) )
        => Output.next_page_url = <<>>

\* C6 as amended: in both branches an element whose href is missing or empty
\* contributes no entry to result_urls and never becomes next_page_url; an
\* element whose href is "#" is not skipped: it contributes the base URL.
C6_SkipsMissingAndEmptyHrefs ==
  Extracted
  => /\ OneEntryEach(Output.result_urls, {i \in Selected : ~MissingOrEmptyHref(i)}, BaseUrl)
     /\ \A i \in Selected :
          FragmentOnlyHref(i)
          => Output.result_urls[Cardinality({j \in Selected : ~MissingOrEmptyHref(j) /\ j <= i})]
             = BaseUrl
     /\ (NextMatches # {} /\ MissingOrEmptyHref(Least(NextMatches)))
        => Output.next_page_url = <<>>
     /\ (NextMatches # {} /\ FragmentOnlyHref(Least(NextMatches)))
        => Output.next_page_url = <<BaseUrl>>

\* C6 witness: the fallback branch meets an anchor with an empty href and
\* then one whose href is "#": only the second contributes an entry.
C6_Witness ==
  /\ Extracted
  /\ result.branch = "fallback"
  /\ Len(Doc) = 2
  /\ Doc[1].has_href /\ Doc[1].href = <<>>
  /\ FragmentOnlyHref(2)
  /\ Output.result_urls = <<BaseUrl>>

\* Exactly one message was published, to the topic, with the body
\* {"url": url}.
PublishedOnce(url) ==
  \E i \in CallsOf("publish") :
    /\ CallsOf("publish") = {i}
    /\ calls[i].target = environ.CRAWL_QUEUE_TOPIC
    /\ calls[i].body = << <<"url", url>> >>

C8_NoPublishWithoutTopicOrNextPage ==
  ( /\ ProcessDone
    /\ \/ ~Truthy(environ.CRAWL_QUEUE_TOPIC)
       \/ ~Extracted
       \/ Output.next_page_url = <<>>
       \/ result.branch = "fallback" )
  => CallsOf("publish") = {}

\* C8 witness: a next page was found and uploaded, no topic is configured.
C8_Witness ==
  /\ Extracted
  /\ Output.next_page_url # <<>>
  /\ ~Truthy(environ.CRAWL_QUEUE_TOPIC)
  /\ result.outcome = "success"
  /\ CallsOf("publish") = {}

\* The response of a failed fetch: 500, "Error fetching URL", the detail of
\* the error; the storage bucket was never opened.
FetchFailureReported ==
  /\ result.status = 500
  /\ result.message.text = "Error fetching URL"
  /\ result.message.url = <<calls[1].key>>
  /\ result.message.detail = world.fetch.detail
  /\ CallsOf("bucket") = {}
  /\ CallsOf("upload") = {}

\* C9 as stated: a timeout, a connection error and every non-2xx response
\* end in the response of a failed fetch.
C9_FetchFailureIs500 ==
  ( /\ ScrapeDone
    /\ CallsOf("get") # {}
    /\ \/ world.fetch.kind # "response"
       \/ world.fetch.status_code < 200
       \/ world.fetch.status_code > 299 )
  => FetchFailureReported

\* C9 as amended: a timeout, a connection error and every 4xx or 5xx
\* response end in the response of a failed fetch.
C9_FetchErrorIs500 ==
  ( /\ ScrapeDone
    /\ CallsOf("get") # {}
    /\ \/ world.fetch.kind # "response"
       \/ (400 <= world.fetch.status_code /\ world.fetch.status_code <= 599) )
  => FetchFailureReported

\* C9 witness: the server answered 503.
C9_Witness ==
  /\ ScrapeDone
  /\ CallsOf("get") # {}
  /\ world.fetch.kind = "response"
  /\ world.fetch.status_code = 503
  /\ FetchFailureReported

\* The trigger of scrape_and_upload is malformed.
MalformedTrigger ==
  \/ trigger.body # "object_with_message"
  \/ "data" \notin trigger.message_keys
  \/ ~trigger.data.b64
  \/ ~trigger.data.utf8
  \/ ~trigger.data.json
  \/ trigger.data.payload.type # "object"
  \/ "url" \notin trigger.data.payload.keys
  \/ trigger.data.payload.url \in {<<>>, << <<>> >>}

\* C10: every malformed trigger is answered with 400, and neither the fetch
\* nor a storage write is attempted.
C10_MalformedTriggerIs400 ==
  ( /\ ScrapeDone
    /\ Truthy(environ.RAW_DATA_BUCKET)
    /\ MalformedTrigger )
  => /\ result.status = 400
     /\ calls = <<>>

\* The calls that open the processed bucket.
OpensProcessedBucket ==
  {i \in CallsOf("bucket") : calls[i].target = environ.PROCESSED_DATA_BUCKET}

\* C11: when the event data lacks "bucket" or "name", when the download of
\* the raw blob fails with NotFound or Forbidden, or when the raw content is
\* not text, the processed bucket is never opened, no processed blob is
\* written and no message is published.
C11_NoOutputAfterTriggerOrDownloadError ==
  ( /\ ProcessDone
    /\ \/ trigger.keys # {"bucket", "name"}
       \/ world.download \in {"NotFound", "Forbidden", "UnicodeDecodeError"} )
  => /\ OpensProcessedBucket = {}
     /\ CallsOf("upload") = {}
     /\ CallsOf("publish") = {}

\* C11 witness: the download was attempted and refused, and the error was
\* logged by the first handler.
C11_Witness ==
  /\ ProcessDone
  /\ Truthy(environ.CRAWL_QUEUE_TOPIC)
  /\ world.download = "Forbidden"
  /\ CallsOf("download") # {}
  /\ result.outcome = "error_logged"
  /\ result.error = "Forbidden"
  /\ CallsOf("upload") = {}

\* C12: when the destination bucket is not configured (RAW_DATA_BUCKET for
\* scrape_and_upload, PROCESSED_DATA_BUCKET for process_data) the invocation
\* ends with no side effect attempted: no fetch, no storage read or write, no
\* publish; scrape_and_upload returns 500 and process_data (once config.json
\* is loaded) reports the configuration error.
C12_NoSideEffectWithoutBucket ==
  /\ (ScrapeDone /\ environ.RAW_DATA_BUCKET \in {None, ""})
     => /\ calls = <<>>
        /\ result.status = 500
        /\ result.outcome = "configuration_error"
  /\ (ProcessDone /\ environ.PROCESSED_DATA_BUCKET \in {None, ""})
     => /\ calls = <<>>
        /\ result.processed = <<>>
        /\ load_config_error(config_file) = None => result.outcome = "configuration_error"

\* C12 witness: RAW_DATA_BUCKET is set to the empty string and the request
\* carries a well-formed message with a URL.
C12_Witness ==
  /\ ScrapeDone
  /\ environ.RAW_DATA_BUCKET = ""
  /\ trigger.body = "object_with_message"
  /\ "data" \in trigger.message_keys
  /\ trigger.data.json
  /\ trigger.data.payload.url = <<HTTP_D>>
  /\ result.status = 500
  /\ calls = <<>>

\* C13: whenever config.json is missing or malformed (it is not JSON, or it
\* is JSON but no object), process_data is not aborted: it runs the fallback
\* extraction, whatever the domain, and writes the processed output.
C13_BrokenConfigFallsBack ==
  ( /\ ProcessDone
    /\ Truthy(environ.PROCESSED_DATA_BUCKET)
    /\ trigger.keys = {"bucket", "name"}
    /\ world.download = "ok"
    /\ config_file.kind \in {"missing", "malformed", "undecodable", "array"} )
  => /\ Extracted
     /\ result.branch = "fallback"
     /\ OneEntryEach(Output.result_urls, {i \in Anchors : NonEmptyHref(i)}, BaseUrl)
     /\ CallsOf("upload") # {}
     /\ world.upload = "ok" => result.outcome = "success"

\* C14: no invocation lets an exception escape to the host: a failure at any
\* step (loading config.json included) is caught and logged; a failed upload
\* of the processed blob is caught after exactly one attempt, and a failed
\* upload of the raw blob is answered with 500.
C14_NoExceptionEscapes ==
  /\ pc = "done" => result.outcome # "exception_escaped"
  /\ (ProcessDone /\ world.upload # "ok")
     => /\ Cardinality(CallsOf("upload")) = 1
        /\ result.outcome \in {"error_logged", "unexpected_error_logged"}
  /\ (ScrapeDone /\ world.upload # "ok")
     => /\ Cardinality(CallsOf("upload")) = 1
        /\ result.status = 500

\* The URL the trigger carries.
TargetUrl == trigger.data.payload.url[1]

\* Host and path of a URL scheme://host/path?query#fragment, read off its
\* text: what follows "//" up to the first "?" or "#".
HostAndPath(url) == Before(Before(Suffix(url, 5), "#"), "?")

HostOf(url) == Before(HostAndPath(url), "/")

PathOf(url) == Suffix(HostAndPath(url), Len(HostOf(url)) + 1)

\* The last segment of the path has an extension: a dot that does not begin
\* the segment.
LastSegmentHasExtension(path) ==
  \E k \in (RFind(path, "/") + 2)..Len(path) : path[k] = "."

\* The raw blob was written, once, under this key, as text/html.
RawKeyWritten(key) ==
  \E i \in CallsOf("upload") :
    /\ CallsOf("upload") = {i}
    /\ calls[i].target = environ.RAW_DATA_BUCKET
    /\ calls[i].key = key
    /\ calls[i].ctype = "text/html"

\* C15: for a URL whose path is not empty, does not end in "/" and has an
\* extension in its last segment, the raw key is host + path, unchanged.
C15_KeyIsHostAndPath ==
  ( /\ ScrapeDone
    /\ CallsOf("upload") # {}
    /\ PathOf(TargetUrl) # <<>>
    /\ Last(PathOf(TargetUrl)) # "/"
    /\ LastSegmentHasExtension(PathOf(TargetUrl)) )
  => RawKeyWritten(HostOf(TargetUrl) \o PathOf(TargetUrl))

\* C15 witness: https://d.com/a.html?x#f was fetched and stored under
\* d.com/a.html.
C15_Witness ==
  /\ ScrapeDone
  /\ result.status = 200
  /\ TargetUrl = <<"https", ":", "/", "/">> \o DCOM \o <<"/", "a", ".", "html", "?", "x", "#", "f">>
  /\ RawKeyWritten(DCOM \o <<"/", "a", ".", "html">>)

INDEX_HTML == <<"/", "index", ".", "html">>

\* C16: for a URL whose path is empty or "/", the raw key is
\* host + "/index.html".
C16_RootKeyIsIndexHtml ==
  ( /\ ScrapeDone
    /\ CallsOf("upload") # {}
    /\ PathOf(TargetUrl) \in {<<>>, <<"/">>} )
  => RawKeyWritten(HostOf(TargetUrl) \o INDEX_HTML)

\* C16 witness: http://d.com, a URL without path, was fetched and stored
\* under d.com/index.html.
C16_Witness ==
  /\ ScrapeDone
  /\ result.status = 200
  /\ TargetUrl = HTTP_D
  /\ RawKeyWritten(DCOM \o INDEX_HTML)

\* The name with its extension replaced by ".json", ".json" appended when
\* its last segment has no extension.
WithJsonExtension(name) ==
  IF LastSegmentHasExtension(name)
  THEN Prefix(name, RFind(name, ".") - 1) \o <<".", "json">>
  ELSE name \o <<".", "json">>

\* C17: a successful process_data invocation writes exactly one blob to the
\* processed bucket, under the raw file name with its extension replaced by
\* ".json" (appended when there is none).
C17_ProcessedKeyIsJsonName ==
  (ProcessDone /\ result.outcome = "success")
  => \E i \in CallsOf("upload") :
       /\ CallsOf("upload") = {i}
       /\ calls[i].target = environ.PROCESSED_DATA_BUCKET
       /\ calls[i].key = WithJsonExtension(trigger.name)
       /\ calls[i].ctype = "application/json"

\* C17 witness: d.com/page.html was processed and written as d.com/page.json.
C17_Witness ==
  /\ ProcessDone
  /\ result.outcome = "success"
  /\ trigger.name = DCOM \o <<"/", "page", ".", "html">>
  /\ Len(Doc) = 1
  /\ \E i \in CallsOf("upload") : calls[i].key = DCOM \o <<"/", "page", ".", "json">>

\* The entry C18 selects: the exact domain's when there is one; otherwise,
\* for a domain that begins with "www.", the entry of the domain with that
\* prefix removed once; otherwise none.
ClaimedRule ==
  IF HasEntry(Domain) THEN <<EntryOf(Domain)>>
  ELSE IF StartsWith(Domain, WWW) /\ HasEntry(Suffix(Domain, 3))
  THEN <<EntryOf(Suffix(Domain, 3))>>
  ELSE <<>>

\* The output is the one the configured extraction gives with this rule.
ExtractedWith(rule) ==
  /\ OneEntryEach(Output.result_urls,
                  {i \in MatchedBy(SelectorOf(rule, "result_link_selector")) : NonEmptyHref(i)},
                  BaseUrl)
  /\ Output.next_page_url =
       IF MatchedBy(SelectorOf(rule, "next_page_selector")) # {}
          /\ NonEmptyHref(Least(MatchedBy(SelectorOf(rule, "next_page_selector"))))
       THEN <<urljoin(BaseUrl, Doc[Least(MatchedBy(SelectorOf(rule, "next_page_selector")))].href)>>
       ELSE <<>>

\* C18: the lookup has two steps.  The exact domain's entry takes precedence;
\* the stripped domain is looked up only when the exact domain has no entry
\* and begins with "www."; the prefix is stripped once (for www.www.X the
\* entry of X is never used).  An entry that sets no selector may be handled
\* as no rule (see C5), but its presence still ends the lookup.
C18_TwoStepLookup ==
  Reached
  => /\ Extracted
     /\ IF ClaimedRule = <<>> THEN result.branch = "fallback"
        ELSE IF ClaimedRule[1].keys = {}
        THEN result.branch = "fallback" \/ ExtractedWith(ClaimedRule[1])
        ELSE result.branch = "configured" /\ ExtractedWith(ClaimedRule[1])

\* The domains whose entry can be selected for the file: its domain and, for
\* a www. domain, the domain without the prefix.
LookedUp == {Domain} \cup (IF StartsWith(Domain, WWW) THEN {Suffix(Domain, 3)} ELSE {})

\* C19: in every processed output that is written, next_page_url is non-null
\* only if a rule was selected for the domain, the rule sets
\* next_page_selector, the selector matches an element and the first element
\* it matches has a non-empty href (next_page_url is that href, resolved).
C19_NextPageOnlyFromFirstMatch ==
  ( /\ Extracted
    /\ CallsOf("upload") # {}
    /\ Output.next_page_url # <<>> )
  => /\ result.branch = "configured"
     /\ \E item \in Entries :
          /\ item[1] \in LookedUp
          /\ "next_page_selector" \in item[2].keys
          /\ Truthy(item[2].next_page_selector)
          /\ MatchedBy(item[2].next_page_selector) # {}
          /\ NonEmptyHref(Least(MatchedBy(item[2].next_page_selector)))
          /\ Output.next_page_url =
               <<urljoin(BaseUrl, Doc[Least(MatchedBy(item[2].next_page_selector))].href)>>

\* C19 witness: the first match of next_page_selector is a <link> with a
\* href, followed by a matching anchor; the output carries the first one's.
C19_Witness ==
  /\ Extracted
  /\ result.outcome = "success"
  /\ Len(Doc) = 2
  /\ Doc[1].tag = "link"
  /\ Doc[2] = Elem("a", {"next"}, TRUE, HREF_ABS)
  /\ Output.next_page_url = <<BaseUrl \o HREF_OTHER>>

\* C20: within one invocation every external operation is attempted at most
\* once, also after it fails: at most one HTTP GET and one raw-blob upload
\* in scrape_and_upload; at most one download, one processed-blob upload and
\* one publish in process_data.
C20_AtMostOneAttempt ==
  /\ ScrapeDone
     => /\ Cardinality(CallsOf("get")) <= 1
        /\ Cardinality(CallsOf("upload")) <= 1
        /\ CallsOf("download") = {} /\ CallsOf("publish") = {}
  /\ ProcessDone
     => /\ Cardinality(CallsOf("download")) <= 1
        /\ Cardinality(CallsOf("upload")) <= 1
        /\ Cardinality(CallsOf("publish")) <= 1
        /\ CallsOf("get") = {}

\* C20 witness: the upload of the raw blob failed after a successful fetch;
\* one GET and one upload were attempted.
C20_Witness ==
  /\ ScrapeDone
  /\ world.upload = "GoogleAPICallError"
  /\ Cardinality(CallsOf("get")) = 1
  /\ Cardinality(CallsOf("upload")) = 1
  /\ result.status = 500

\* C21: in process_data the upload of the processed blob precedes the
\* publish: a message is published only after the upload returned, so a
\* failed upload means no message; a failed publish leaves the blob written
\* (no call follows the publish, nothing is rolled back) and the handler
\* ends by logging the error.
C21_UploadPrecedesPublish ==
  ProcessDone
  => /\ \A p \in CallsOf("publish") :
          /\ world.upload = "ok"
          /\ \E u \in CallsOf("upload") :
               u < p /\ calls[u].target = environ.PROCESSED_DATA_BUCKET
     /\ world.upload # "ok" => CallsOf("publish") = {}
     /\ world.publish = "error"
          => /\ Cardinality(CallsOf("upload")) = 1
             /\ CallsOf("publish") = {Len(calls)}
             /\ \A i \in 1..Len(calls) : calls[i].op \in {"bucket", "download", "upload", "publish"}
             /\ result.outcome = "unexpected_error_logged"

\* C21 witness: the blob was written, then the publish failed.
C21_Witness ==
  /\ ProcessDone
  /\ world.publish = "error"
  /\ result.error = "PublishError"
  /\ CallsOf("upload") # {}
  /\ CallsOf("publish") # {}
  /\ result.outcome = "unexpected_error_logged"

\* The fetch succeeded: requests.get was called and returned a response
\* whose status raise_for_status accepts (not 4xx, not 5xx).
FetchSucceeded ==
  /\ CallsOf("get") # {}
  /\ world.fetch.kind = "response"
  /\ ~(400 <= world.fetch.status_code /\ world.fetch.status_code <= 599)

\* C22: scrape_and_upload returns 200, 400 or 500; it returns 200 exactly
\* when the fetch succeeded and the raw blob was uploaded without error; when
\* it returns 400 no fetch was attempted.
C22_StatusTellsOutcome ==
  ScrapeDone
  => /\ result.status \in {200, 400, 500}
     /\ result.status = 200
          <=> (FetchSucceeded /\ CallsOf("upload") # {} /\ world.upload = "ok")
     /\ result.status = 400 => CallsOf("get") = {}

\* C22 witness: the server answered 204 and the (empty) body was stored; the
\* function returned 200.
C22_Witness ==
  /\ ScrapeDone
  /\ world.fetch.status_code = 204
  /\ Cardinality(CallsOf("get")) = 1
  /\ Cardinality(CallsOf("upload")) = 1
  /\ world.upload = "ok"
  /\ result.status = 200

\* The URL of /p.html at the root of the file's domain.
RootUrl(scheme) == <<scheme, ":", "/", "/">> \o Domain \o HREF_ROOT

\* The entry of result_urls that the element at position i contributed.
EntryFrom(i) ==
  Output.result_urls[Cardinality({j \in Selected : ~MissingOrEmptyHref(j) /\ j <= i})]

\* C23: a relative href (no scheme, no leading "/") is resolved against the
\* root of the domain, never against the directory of the stored file: in
\* every file, d.com/a/b.html included, "p.html" yields the same URL as
\* "/p.html", <scheme>://<domain>/p.html.
C23_RelativeHrefResolvedAtRoot ==
  Extracted
  => \E scheme \in {"http", "https"} :
       /\ \A i \in Selected :
            (Doc[i].has_href /\ Doc[i].href \in {HREF_REL, HREF_ROOT})
            => EntryFrom(i) = RootUrl(scheme)
       /\ \A i \in NextMatches :
            (i = Least(NextMatches) /\ Doc[i].has_href /\ Doc[i].href \in {HREF_REL, HREF_ROOT})
            => Output.next_page_url = <<RootUrl(scheme)>>

\* C23 witness: d.com/a/b.html holds a link to "p.html" and one to
\* "/p.html"; both are written as the same URL at the root of d.com.
C23_Witness ==
  /\ Extracted
  /\ trigger.name = DCOM \o <<"/", "a", "/", "b", ".", "html">>
  /\ Len(Doc) = 2
  /\ Doc[1].has_href /\ Doc[1].href = HREF_REL
  /\ Doc[2].has_href /\ Doc[2].href = HREF_ROOT
  /\ Len(Output.result_urls) = 2
  /\ Output.result_urls[1] = Output.result_urls[2]
  /\ Output.result_urls[1] = <<"https", ":", "/", "/">> \o DCOM \o HREF_ROOT

\* Path q is path p with ".html" added, p being the path of a page without
\* extension ("/a" and "/a.html").
HtmlAdded(p, q) ==
  /\ p # <<>>
  /\ Last(p) # "/"
  /\ ~LastSegmentHasExtension(p)
  /\ q = p \o <<".", "html">>

\* Two URLs differ at most in the scheme, the query string and the fragment,
\* or in the ".html" that one path has and the other lacks.
SamePage(u1, u2) ==
  /\ HostOf(u1) = HostOf(u2)
  /\ \/ PathOf(u1) = PathOf(u2)
     \/ HtmlAdded(PathOf(u1), PathOf(u2))
     \/ HtmlAdded(PathOf(u2), PathOf(u1))

\* The last successful scrape that stored its page under the key.
LastUnder(key) ==
  CHOOSE i \in 1..Len(scraped) :
    /\ scraped[i].key = key
    /\ \A j \in 1..Len(scraped) : scraped[j].key = key => j <= i

\* C24: the raw key depends only on the host and the path of the URL.  Two
\* successful scrapes whose URLs differ only in the scheme, the query string
\* and the fragment (or as "http://h/a" and "http://h/a.html" do) store
\* under the same key, and the later one overwrites the earlier: the key
\* holds one blob, the page of the last scrape stored under it.
C24_SameKeyLaterOverwrites ==
  \A i, j \in 1..Len(scraped) :
    (i < j /\ SamePage(scraped[i].url, scraped[j].url))
    => /\ scraped[i].key = scraped[j].key
       /\ scraped[j].key \in DOMAIN raw_bucket
       /\ raw_bucket[scraped[j].key] = <<"html", scraped[LastUnder(scraped[j].key)].url>>

\* C24 witness: http://d.com/a was scraped and stored, then
\* https://d.com/a.html?x#f; the bucket holds one blob, d.com/a.html, and it
\* is the page of the second scrape.
C24_Witness ==
  /\ Len(scraped) = 2
  /\ scraped[1].url = HTTP_D \o <<"/", "a">>
  /\ scraped[2].url =
       <<"https", ":", "/", "/">> \o DCOM \o <<"/", "a", ".", "html", "?", "x", "#", "f">>
  /\ DOMAIN raw_bucket = {DCOM \o <<"/", "a", ".", "html">>}
  /\ raw_bucket[DCOM \o <<"/", "a", ".", "html">>] = <<"html", scraped[2].url>>

====
